---------------------------- MODULE Spec2Model ----------------------------
(***************************************************************************)
(* A model of the trading price engine:                                    *)
(*   - src/src/api_clients/websocket_client.py : WebSocketClient (live     *)
(*     ingestion, dedup, connection lifecycle, backfill, stop)             *)
(*   - src/src/price_engine/engine.py : PriceEngine (weighted average,     *)
(*     process_csv_files = the time-grid merge, the range query,           *)
(*     track_live_prices = the live run and its shutdown)                  *)
(*                                                                         *)
(* Time is counted in units of the tick log's resolution (the millisecond  *)
(* of _write_to_csv), SubSec units to the second.  A price is a natural    *)
(* number; a weight is the weight of engine.py:39-43 times ten; a weighted *)
(* average is the exact fraction <<weighted_sum, total_weight>>.           *)
(***************************************************************************)
EXTENDS Integers, Sequences, FiniteSets, TLC

VARIABLES
    \* ---- WebSocketClient ----
    running,               \* self.running
    pc,                    \* per source: where that source's websocket thread is
    main_pc,               \* where the main thread of the live run is
    now,                   \* the wall clock, datetime.now(tz=UTC)
    processed_trade_ids,   \* self.processed_trade_ids[source], a deque(maxlen)
    processed_entries,     \* self.processed_entries[source], a deque(maxlen)
    csv,                   \* the rows of self.csv_files[source], header apart
    disconnect_times,      \* self.disconnect_times[source]
    reconnect_times,       \* self.reconnect_times[source]
    ws_threads,            \* self.ws_threads[source]: the number of the thread, 0 = no entry
    keep_running,          \* keep_running of the WebSocketApp in self.ws_apps[source]
    join_target,           \* the thread stop() is joining, <<>> when none
    fill_args,             \* per source: the window of the running/last _fill_missed_data
    \* ---- history (read by the properties only) ----
    accepted,              \* per source: the trades that passed dedup, in order
    last_event,            \* the trade delivered last: its source, its path, and whether it was kept
    was_open,              \* per source: the connection of the thread has been open
    notified,              \* per source: the calls of self.on_price_update, in order
    faults,                \* transport faults the environment has caused so far
    delivered,             \* trades the exchanges have delivered so far (live + backfill)
    \* ---- the REST endpoints of the exchanges ----
    history,               \* the trades the exchange holds, oldest first
    fetched,               \* what the fetch returned and the loop has not taken yet
    \* ---- PriceEngine ----
    final_csv,             \* the rows of data/final_weighted_avg.csv, header apart
    merge_prices,          \* the prices dict of each grid point of the last merge
    db,                    \* the rows of table weighted_avg_prices
    merge_status,          \* how the last process_csv_files ended
    merges,                \* how many times process_csv_files has run
    query_result,          \* what the last query_weighted_avg_prices returned
    prices_in,             \* the argument of calculate_weighted_average
    avg_out                \* its result

vars == << running, pc, main_pc, now, processed_trade_ids, processed_entries, csv,
           disconnect_times, reconnect_times, ws_threads, keep_running, join_target,
           fill_args, accepted, last_event, was_open, notified, faults, delivered,
           history, fetched,
           final_csv, merge_prices, db, merge_status, merges, query_result,
           prices_in, avg_out >>

clientVars == << running, pc, main_pc, now, processed_trade_ids, processed_entries,
                 disconnect_times, reconnect_times, ws_threads, keep_running,
                 join_target, fill_args, accepted, last_event, was_open, notified, faults,
                 delivered >>

mergeVars == << final_csv, merge_prices, db, merge_status, merges, query_result >>

avgVars == << prices_in, avg_out >>

fetchVars == << history, fetched >>

(***************************************************************************)
(* Bounds of the model.                                                    *)
(***************************************************************************)
SubSec == 2          \* clock units to the second (1000 in the program)
MaxLen == 1          \* the capacity of a dedup deque (10000 in the program)
MaxTime == 1         \* the live run's clock stops here
MaxFaults == 1       \* transport faults in one live run
MaxDelivered == 3    \* trades delivered in one live run
MaxRows == 3         \* rows of all tick logs together, when the logs are drawn
MaxLogTime == 5      \* the latest timestamp of a drawn tick log
MaxMerges == 2       \* runs of process_csv_files over the drawn logs
MaxQueryRows == 2    \* rows of all tick logs together, when the table is queried
MaxHist == 3         \* trades an exchange holds, when they are drawn
MaxFillTime == 5     \* the latest time of a drawn trade or window
BinanceLimit == 2    \* the page of historicalTrades (1000 in the program)
CoinbaseLimit == 2   \* the page of /trades (100 in the program)

(***************************************************************************)
(* Values.                                                                 *)
(***************************************************************************)
None == <<>>                               \* Python's None; Some(x) is <<x>>
Some(x) == <<x>>

Sources == {"Binance", "Coinbase"}         \* the keys of self.csv_files
SourceOrder == <<"Binance", "Coinbase">>   \* their dict order
Prices == {100, 104}
TradeIds == {1, 2}
AnySourceNames == {"Binance", "Coinbase", "CoinGecko", "Kraken"}

weights == [Binance |-> 6, Coinbase |-> 4, CoinGecko |-> 3]

Max(S) == CHOOSE x \in S : \A y \in S : y <= x
Min(S) == CHOOSE x \in S : \A y \in S : x <= y


(***************************************************************************)
(* PriceEngine.calculate_weighted_average (engine.py:106-117).             *)
(* prices is a function from source names to prices.                       *)
(***************************************************************************)
NameOrder == <<"Binance", "Coinbase", "CoinGecko", "Kraken">>

\* prices.items(): the keys of the dict, in order
Items(prices) == SelectSeq(NameOrder, LAMBDA n : n \in DOMAIN prices)

\* A slip: every source counts with weight one
RECURSIVE WeightedLoopUnweighted(_, _, _)
WeightedLoopUnweighted(prices, items, acc) ==
    IF items = <<>> THEN acc
    ELSE WeightedLoopUnweighted(prices, Tail(items),
            [weighted_sum |-> acc.weighted_sum + prices[Head(items)],
             total_weight |-> acc.total_weight + 1])

\* The loop of lines 112-116
RECURSIVE WeightedLoop(_, _, _)
WeightedLoop(prices, items, acc) ==
    IF items = <<>> THEN acc
    ELSE LET source_name == Head(items)
             step == IF source_name \in DOMAIN weights
                     THEN [weighted_sum |-> acc.weighted_sum
                                            + prices[source_name] * weights[source_name],
                           total_weight |-> acc.total_weight + weights[source_name]]
                     ELSE acc
         IN  WeightedLoop(prices, Tail(items), step)

calculate_weighted_average(prices) ==
    IF DOMAIN prices = {} THEN None
    ELSE LET r == WeightedLoop(prices, Items(prices),
                               [weighted_sum |-> 0, total_weight |-> 0])
         IN  IF r.total_weight > 0 THEN <<r.weighted_sum, r.total_weight>> ELSE None

(***************************************************************************)
(* PriceEngine.process_csv_files (engine.py:119-239): the time-grid merge. *)
(* A tick log row is [timestamp, price]; a frame is the DataFrame of one   *)
(* source: the name of its index and its rows.                             *)
(***************************************************************************)
SecOf(t) == t \div SubSec          \* the second a timestamp lies in

\* lines 128-143: the frame read from one tick log.  An empty, missing or
\* unreadable log gives DataFrame(columns=['price'], index=DatetimeIndex([])),
\* whose index has no name.
ReadFrame(rows) ==
    IF rows # <<>> THEN [index_name |-> "timestamp", rows |-> rows]
    ELSE [index_name |-> "none", rows |-> <<>>]

\* line 146: df.reset_index()['timestamp'] raises KeyError for a frame whose
\* index is not named timestamp (reset_index calls the column 'index')
ResetIndexFails(frame) == frame.index_name # "timestamp"

\* resample sorts a frame that is not in timestamp order, stably
RECURSIVE InsertSorted(_, _)
InsertSorted(sorted, r) ==
    IF sorted = <<>> THEN <<r>>
    ELSE IF Head(sorted).timestamp <= r.timestamp
         THEN <<Head(sorted)>> \o InsertSorted(Tail(sorted), r)
         ELSE <<r>> \o sorted

RECURSIVE SortByTimestamp(_)
SortByTimestamp(rows) ==
    IF rows = <<>> THEN <<>>
    ELSE InsertSorted(SortByTimestamp(SubSeq(rows, 1, Len(rows) - 1)), rows[Len(rows)])

\* A slip: each second takes its first price
ResampleFirst(rows) ==
    LET sorted == SortByTimestamp(rows)
        lo == SecOf(sorted[1].timestamp)
        hi == SecOf(sorted[Len(sorted)].timestamp)
        InBin(k) == {i \in DOMAIN sorted : SecOf(sorted[i].timestamp) = k}
        first == [k \in lo..hi |-> IF InBin(k) = {} THEN None
                                   ELSE Some(sorted[Min(InBin(k))].price)]
        ffill[k \in lo..hi] == IF first[k] # None THEN first[k][1] ELSE ffill[k - 1]
    IN  ffill

\* A slip: the frame is not sorted, each second takes the price appended last
ResampleAppendOrder(rows) ==
    LET stamps == {rows[i].timestamp : i \in DOMAIN rows}
        lo == SecOf(Min(stamps))
        hi == SecOf(Max(stamps))
        InBin(k) == {i \in DOMAIN rows : SecOf(rows[i].timestamp) = k}
        last == [k \in lo..hi |-> IF InBin(k) = {} THEN None
                                  ELSE Some(rows[Max(InBin(k))].price)]
        ffill[k \in lo..hi] == IF last[k] # None THEN last[k][1] ELSE ffill[k - 1]
    IN  ffill

\* line 155: df.resample('s').last().ffill(), for a frame with rows: a function
\* from every second between the first and the last tick to a price
Resample(rows) ==
    LET sorted == SortByTimestamp(rows)
        lo == SecOf(sorted[1].timestamp)
        hi == SecOf(sorted[Len(sorted)].timestamp)
        InBin(k) == {i \in DOMAIN sorted : SecOf(sorted[i].timestamp) = k}
        last == [k \in lo..hi |-> IF InBin(k) = {} THEN None
                                  ELSE Some(sorted[Max(InBin(k))].price)]
        ffill[k \in lo..hi] == IF last[k] # None THEN last[k][1] ELSE ffill[k - 1]
    IN  ffill

\* lines 175-181: the price of one source at grid point g, None when it has none
PriceAt(df, g) ==
    IF g \in DOMAIN df THEN Some(df[g])
    ELSE LET past_data == {k \in DOMAIN df : k < g}
         IN  IF past_data # {} THEN Some(df[Max(past_data)]) ELSE None

\* A slip: a source without a value counts with the price zero
GridPricesZero(dfs, g) ==
    [s \in Sources |-> IF PriceAt(dfs[s], g) # None THEN PriceAt(dfs[s], g)[1] ELSE 0]

\* lines 173-181: the prices dict of grid point g
GridPrices(dfs, g) ==
    LET present == {s \in Sources : PriceAt(dfs[s], g) # None}
    IN  [s \in present |-> PriceAt(dfs[s], g)[1]]

\* lines 159-166: the grid, every second from the earliest to the latest
TimeRange(dfs) ==
    LET start_time == Min(UNION {DOMAIN dfs[s] : s \in Sources})
        end_time == Max(UNION {DOMAIN dfs[s] : s \in Sources})
    IN  [i \in 1..(end_time - start_time + 1) |-> start_time + i - 1]

\* lines 172-188: the rows written, one for each grid point with an average
CanonicalRows(dfs) ==
    LET time_range == TimeRange(dfs)
        all == [i \in DOMAIN time_range |->
                  [timestamp |-> time_range[i],
                   weighted_avg |-> calculate_weighted_average(GridPrices(dfs, time_range[i]))]]
    IN  SelectSeq(all, LAMBDA row : row.weighted_avg # None)

\* A slip: the final file opened in append mode
WriteFinalCsvAppend(old, rows) == old \o rows

\* line 168: open(self.final_csv, mode='w') drops what the file held
WriteFinalCsv(old, rows) == rows

\* lines 218-231: every row of the final file is inserted, with the next ids
InsertRows(table, rows) ==
    table \o [i \in DOMAIN rows |->
                [id |-> Len(table) + i, timestamp |-> rows[i].timestamp,
                 weighted_avg |-> rows[i].weighted_avg]]

\* process_csv_files as a whole, on the tick logs as they are
process_csv_files ==
    LET frames == [s \in Sources |-> ReadFrame(csv[s])]
    IN  IF \E s \in Sources : ResetIndexFails(frames[s])
        THEN \* line 146 raises KeyError: nothing is written
             /\ merge_status' = "KeyError"
             /\ UNCHANGED << final_csv, merge_prices, db, notified >>
        ELSE LET dfs == [s \in Sources |-> Resample(frames[s].rows)]
                 time_range == TimeRange(dfs)
                 rows == CanonicalRows(dfs)
             IN  /\ final_csv' = WriteFinalCsv(final_csv, rows)
                 /\ merge_prices' = [i \in DOMAIN time_range |->
                                       [timestamp |-> time_range[i],
                                        prices |-> GridPrices(dfs, time_range[i])]]
                 /\ db' = InsertRows(db, final_csv')
                 /\ merge_status' = "ok"

(***************************************************************************)
(* PriceEngine.query_weighted_avg_prices (engine.py:241-293).              *)
(***************************************************************************)
\* A date is a text; of "%Y-%m-%d %H:%M:%S" the model keeps the seconds, a
\* sequence of digits.  strftime (line 186) writes two digits.
strftime(t) == << t \div 10, t % 10 >>

\* datetime.strptime (lines 247-248) takes one digit or two
strptime(text) == IF Len(text) = 1 THEN text[1] ELSE 10 * text[1] + text[2]

\* the comparison of two TEXT values in SQLite: the first place that
\* differs decides, and a text is above its proper prefixes
TextLess(a, b) ==
    \E k \in 1..(Len(a) + 1) :
        /\ \A n \in 1..(k - 1) : n <= Len(b) /\ a[n] = b[n]
        /\ k <= Len(b)
        /\ (k > Len(a) \/ a[k] < b[k])

TextLeq(a, b) == a = b \/ TextLess(a, b)

\* ORDER BY timestamp
OrderByTimestamp(rows) == SortByTimestamp(rows)

\* the table keeps the timestamp of a row as the text strftime wrote; the
\* arguments are compared with it as texts (lines 268-274)
query_weighted_avg_prices(start_date, end_date) ==
    IF strptime(start_date) >= strptime(end_date) THEN <<>>
    ELSE LET hit == SelectSeq(db, LAMBDA r : TextLeq(start_date, strftime(r.timestamp))
                                               /\ TextLeq(strftime(r.timestamp), end_date))
             ordered == OrderByTimestamp(hit)
         IN  [i \in DOMAIN ordered |-> [timestamp |-> ordered[i].timestamp,
                                        weighted_avg |-> ordered[i].weighted_avg]]

(***************************************************************************)
(* The state before anything has run.                                      *)
(***************************************************************************)
\* WebSocketClient.__init__ (websocket_client.py:26-48)
ClientInit ==
    /\ running = FALSE
    /\ pc = [s \in Sources |-> "none"]
    /\ main_pc = "init"
    /\ now = 0
    /\ processed_trade_ids = [s \in Sources |-> <<>>]
    /\ processed_entries = [s \in Sources |-> <<>>]
    /\ disconnect_times = [s \in Sources |-> None]
    /\ reconnect_times = [s \in Sources |-> None]
    /\ ws_threads = [s \in Sources |-> 0]
    /\ keep_running = [s \in Sources |-> FALSE]
    /\ join_target = None
    /\ fill_args = [s \in Sources |-> None]
    /\ accepted = [s \in Sources |-> <<>>]
    /\ last_event = None
    /\ was_open = [s \in Sources |-> FALSE]
    /\ notified = [s \in Sources |-> <<>>]
    /\ faults = 0
    /\ delivered = 0

\* PriceEngine.__init__ (engine.py:32-44), with no canonical row yet
EngineInit ==
    /\ final_csv = <<>>
    /\ merge_prices = <<>>
    /\ db = <<>>
    /\ merge_status = "none"
    /\ merges = 0
    /\ query_result = None

AvgIdle ==
    /\ prices_in = <<>>
    /\ avg_out = [done |-> FALSE]

\* no request to a REST endpoint has been made
FetchIdle ==
    /\ history = <<>>
    /\ fetched = None

(***************************************************************************)
(* SpecAvg: calculate_weighted_average on every mapping of up to four      *)
(* source names to prices.                                                 *)
(***************************************************************************)
AvgPrices == {0, 100, 104}

InitAvg ==
    /\ ClientInit
    /\ csv = [s \in Sources |-> <<>>]
    /\ EngineInit
    /\ \E names \in SUBSET AnySourceNames : prices_in \in [names -> AvgPrices]
    /\ avg_out = [done |-> FALSE]
    /\ FetchIdle

CalcAvg ==
    /\ ~avg_out.done
    /\ avg_out' = [done |-> TRUE, value |-> calculate_weighted_average(prices_in)]
    /\ UNCHANGED << clientVars, csv, mergeVars, prices_in, fetchVars >>

NextAvg == CalcAvg

SpecAvg == InitAvg /\ [][NextAvg]_vars

(***************************************************************************)
(* SpecMerge: process_csv_files and the range query over tick logs that    *)
(* earlier live runs have left on disk.                                    *)
(***************************************************************************)
LogRows == [timestamp : 0..MaxLogTime, price : Prices]

InitMerge ==
    /\ ClientInit
    /\ EngineInit
    /\ AvgIdle
    /\ FetchIdle
    /\ \E n1 \in 0..MaxRows : \E n2 \in 0..(MaxRows - n1) :
         \E b \in [1..n1 -> LogRows] : \E c \in [1..n2 -> LogRows] :
            csv = [s \in Sources |-> IF s = "Binance" THEN b ELSE c]

\* one run of the merge (engine.py:407, the end of a live run)
MergeRun ==
    /\ merges < MaxMerges
    /\ merges' = merges + 1
    /\ process_csv_files
    /\ UNCHANGED << clientVars, csv, avgVars, fetchVars, query_result >>

\* --start-date and --end-date of main.py:141-142: the seconds written with
\* two digits or, when below ten, with one
DateTexts ==
    {strftime(t) : t \in 0..SecOf(MaxLogTime)} \cup {<<t>> : t \in 0..SecOf(MaxLogTime)}

\* main.py:178-180, mode query-db; the result is kept with its arguments
QueryRun ==
    /\ Len(csv["Binance"]) + Len(csv["Coinbase"]) <= MaxQueryRows
    /\ \E start_date \in DateTexts : \E end_date \in DateTexts :
          query_result' = Some([start_date |-> start_date, end_date |-> end_date,
                                rows |-> query_weighted_avg_prices(start_date, end_date)])
    /\ UNCHANGED << clientVars, csv, avgVars, fetchVars, final_csv, merge_prices, db,
                    merge_status, merges >>

NextMerge == MergeRun \/ QueryRun

SpecMerge == InitMerge /\ [][NextMerge]_vars

(***************************************************************************)
(* WebSocketClient: dedup and the tick log.                                *)
(* A trade is [trade_id, price, timestamp].                                *)
(***************************************************************************)
\* A slip: a deque without maxlen, nothing is evicted
DequeAppendUnbounded(dq, x) == Append(dq, x)

\* deque(maxlen=...).append: a full deque drops its oldest entry
DequeAppend(dq, x) == IF Len(dq) < MaxLen THEN Append(dq, x) ELSE Append(Tail(dq), x)

\* x in deque
InDeque(dq, x) == \E i \in DOMAIN dq : dq[i] = x

entry_key(trade) == <<trade.timestamp, trade.price>>

\* A slip: only the trade id is looked up
IsDuplicateIdOnly(s, trade) == InDeque(processed_trade_ids[s], trade.trade_id)

\* the two lookups under the dedup lock (lines 176-181, 203-208, 231-236)
IsDuplicate(s, trade) ==
    \/ InDeque(processed_trade_ids[s], trade.trade_id)
    \/ InDeque(processed_entries[s], entry_key(trade))

\* _write_to_csv (lines 60-70): one row at the end of the source's file.
\* The timestamp is written in local time with three decimals of the second;
\* the clock of the model runs in these units and the zone offset is fixed.
write_to_csv(log, timestamp, price) ==
    Append(log, [timestamp |-> timestamp, price |-> price])

\* One trade through the dedup block under self.dedupe_locks[s] and, when it
\* is no duplicate, through _write_to_csv (lines 175-186, 202-213, 230-241).
\* A duplicate leaves everything as it is.  path is the caller: "live" for
\* a message handler, "backfill" for _fill_missed_data.
Ingest(s, trade, path) ==
    IF IsDuplicate(s, trade)
    THEN /\ last_event' = Some([source |-> s, trade |-> trade, kept |-> FALSE,
                                path |-> path])
         /\ UNCHANGED << processed_trade_ids, processed_entries, accepted, csv >>
    ELSE /\ processed_trade_ids' =
               [processed_trade_ids EXCEPT ![s] = DequeAppend(@, trade.trade_id)]
         /\ processed_entries' =
               [processed_entries EXCEPT ![s] = DequeAppend(@, entry_key(trade))]
         /\ accepted' = [accepted EXCEPT ![s] =
                            Append(@, [trade_id |-> trade.trade_id, price |-> trade.price,
                                       timestamp |-> trade.timestamp, path |-> path])]
         /\ last_event' = Some([source |-> s, trade |-> trade, kept |-> TRUE,
                                path |-> path])
         /\ csv' = [csv EXCEPT ![s] = write_to_csv(@, trade.timestamp, trade.price)]

\* the tick log holds the row of the trade
InLog(log, trade) ==
    \E i \in DOMAIN log : log[i] = [timestamp |-> trade.timestamp, price |-> trade.price]

\* A slip: the subscriber is called before the row is written
forward_before_write(s, trade) ==
    notified' = [notified EXCEPT ![s] =
                    Append(@, [timestamp |-> trade.timestamp, price |-> trade.price,
                               in_log |-> InLog(csv[s], trade)])]

\* self.on_price_update("ETHUSDT", {source: price}, fetch_time), lines 214 and
\* 242, the statement after _write_to_csv: the call is recorded with what a
\* subscriber reading the tick log finds there at that moment
forward(s, trade) ==
    notified' = [notified EXCEPT ![s] =
                    Append(@, [timestamp |-> trade.timestamp, price |-> trade.price,
                               in_log |-> InLog(csv'[s], trade)])]

\* the process is alive: the websocket threads are daemon threads
Alive == main_pc \notin {"init", "crashed", "exited"}

(***************************************************************************)
(* WebSocketClient: the websocket thread of a source.                      *)
(*   connecting : run_forever is connecting                                *)
(*   filling    : in _on_open, in the loop of _fill_missed_data            *)
(*   connected  : waiting for the next message                             *)
(*   error      : the connection failed, on_error is due                   *)
(*   closing    : the connection is gone, on_close is due                  *)
(*   backoff    : in _on_close, in time.sleep(5)                           *)
(*   ended      : the thread has ended                                     *)
(*   unsubscribed : _on_open was left by an exception before line 271      *)
(***************************************************************************)
\* line 269, the window handed to _fill_missed_data; a slip that swaps it
fill_window_swapped(disconnect_time, reconnect_time) == <<reconnect_time, disconnect_time>>

fill_window(disconnect_time, reconnect_time) == <<disconnect_time, reconnect_time>>

\* _on_open (lines 261-278) up to the fetch of _fill_missed_data
on_open(s) ==
    /\ Alive /\ pc[s] = "connecting" /\ keep_running[s]
    /\ reconnect_times' = [reconnect_times EXCEPT ![s] = Some(now)]
    /\ was_open' = [was_open EXCEPT ![s] = TRUE]
    /\ LET disconnect_time == disconnect_times[s]
           reconnect_time == reconnect_times'[s]
       IN  IF disconnect_time # None /\ reconnect_time # None
           THEN /\ fill_args' = [fill_args EXCEPT ![s] =
                                   Some(fill_window(disconnect_time[1], reconnect_time[1]))]
                /\ pc' = [pc EXCEPT ![s] = "filling"]
           ELSE /\ pc' = [pc EXCEPT ![s] = "connected"]
                /\ UNCHANGED fill_args
    /\ UNCHANGED << running, main_pc, now, processed_trade_ids, processed_entries, csv,
                    disconnect_times, ws_threads, keep_running, join_target,
                    accepted, last_event, faults, delivered, mergeVars, avgVars, fetchVars, notified >>

\* _fill_missed_data (lines 169-186): one turn of the loop, for the next
\* fetched trade; the fetch returns trades of the window only
fill_trade(s) ==
    /\ Alive /\ pc[s] = "filling" /\ delivered < MaxDelivered
    /\ \E id \in TradeIds : \E price \in Prices :
         \E ts \in fill_args[s][1][1]..fill_args[s][1][2] :
            Ingest(s, [trade_id |-> id, price |-> price, timestamp |-> ts], "backfill")
    /\ delivered' = delivered + 1
    /\ UNCHANGED << running, pc, main_pc, now, disconnect_times, reconnect_times,
                    ws_threads, keep_running, join_target, fill_args, faults,
                    mergeVars, avgVars, fetchVars, was_open, notified >>

\* _fill_missed_data (line 188) and the rest of _on_open: the loop is over
fill_done(s) ==
    /\ Alive /\ pc[s] = "filling"
    /\ fill_args' = [fill_args EXCEPT ![s] = None]
    /\ pc' = [pc EXCEPT ![s] = "connected"]
    /\ UNCHANGED << running, main_pc, now, processed_trade_ids, processed_entries, csv,
                    disconnect_times, reconnect_times, ws_threads, keep_running,
                    join_target, accepted, last_event, faults, delivered, mergeVars, avgVars, fetchVars, was_open, notified >>

\* _on_binance_message / _on_coinbase_message (lines 190-216, 218-244), for
\* a trade the exchange stamps with now; on_price_update does nothing
\* (engine.py:389-391)
on_message(s) ==
    /\ Alive /\ pc[s] = "connected" /\ keep_running[s] /\ delivered < MaxDelivered
    /\ \E id \in TradeIds : \E price \in Prices :
          LET trade == [trade_id |-> id, price |-> price, timestamp |-> now]
          IN  /\ Ingest(s, trade, "live")
              /\ IF IsDuplicate(s, trade) THEN UNCHANGED notified ELSE forward(s, trade)
    /\ delivered' = delivered + 1
    /\ UNCHANGED << running, pc, main_pc, now, disconnect_times, reconnect_times,
                    ws_threads, keep_running, join_target, fill_args, faults,
                    mergeVars, avgVars, fetchVars, was_open >>

lifecycleFrame == << running, main_pc, now, processed_trade_ids, processed_entries, csv,
                     reconnect_times, join_target, fill_args, accepted, last_event, delivered,
                     mergeVars, avgVars, fetchVars, notified >>

\* the network: a connection attempt fails, or an open connection breaks
transport_error(s) ==
    /\ Alive /\ pc[s] \in {"connecting", "connected"} /\ keep_running[s]
    /\ faults < MaxFaults
    /\ faults' = faults + 1
    /\ pc' = [pc EXCEPT ![s] = "error"]
    /\ UNCHANGED << lifecycleFrame, disconnect_times, ws_threads, keep_running, was_open >>

\* the network: the exchange closes an open connection
server_close(s) ==
    /\ Alive /\ pc[s] = "connected" /\ keep_running[s]
    /\ faults < MaxFaults
    /\ faults' = faults + 1
    /\ pc' = [pc EXCEPT ![s] = "closing"]
    /\ UNCHANGED << lifecycleFrame, disconnect_times, ws_threads, keep_running, was_open >>

\* run_forever leaves its loop once close() has been called on its app
closed_by_stop(s) ==
    /\ Alive /\ pc[s] \in {"connecting", "connected"} /\ ~keep_running[s]
    /\ pc' = [pc EXCEPT ![s] = "closing"]
    /\ UNCHANGED << lifecycleFrame, disconnect_times, ws_threads, keep_running, faults, was_open >>

\* _on_error (lines 246-249); run_forever then tears the connection down
on_error(s) ==
    /\ Alive /\ pc[s] = "error"
    /\ pc' = [pc EXCEPT ![s] = "closing"]
    /\ UNCHANGED << lifecycleFrame, disconnect_times, ws_threads, keep_running, faults, was_open >>

\* A slip: the close handler never reconnects
should_reconnect_never(flag) == FALSE

\* line 256: if self.running
should_reconnect(flag) == flag

\* A slip: one disconnect time for all the sources
on_close_shared_time(s) ==
    /\ Alive /\ pc[s] = "closing"
    /\ disconnect_times' = [x \in Sources |-> Some(now)]
    /\ pc' = [pc EXCEPT ![s] = IF should_reconnect(running) THEN "backoff" ELSE "ended"]
    /\ was_open' = [was_open EXCEPT ![s] = FALSE]
    /\ UNCHANGED << lifecycleFrame, ws_threads, keep_running, faults >>

\* _on_close (lines 251-258) up to time.sleep(5)
on_close(s) ==
    /\ Alive /\ pc[s] = "closing"
    /\ disconnect_times' = [disconnect_times EXCEPT ![s] = Some(now)]
    /\ pc' = [pc EXCEPT ![s] = IF should_reconnect(running) THEN "backoff" ELSE "ended"]
    /\ was_open' = [was_open EXCEPT ![s] = FALSE]
    /\ UNCHANGED << lifecycleFrame, ws_threads, keep_running, faults >>

\* _start_websocket (lines 280-308): a new app and a new thread for s
start_websocket(s) ==
    /\ ws_threads' = [ws_threads EXCEPT ![s] = @ + 1]
    /\ keep_running' = [keep_running EXCEPT ![s] = TRUE]
    /\ pc' = [pc EXCEPT ![s] = "connecting"]

\* _on_close (line 259), after the sleep; the old thread ends
reconnect(s) ==
    /\ Alive /\ pc[s] = "backoff"
    /\ start_websocket(s)
    /\ UNCHANGED << lifecycleFrame, disconnect_times, faults, was_open >>

\* the wall clock moves on
Tick ==
    /\ Alive /\ now < MaxTime
    /\ now' = now + 1
    /\ UNCHANGED << running, pc, main_pc, processed_trade_ids, processed_entries, csv,
                    disconnect_times, reconnect_times, ws_threads, keep_running,
                    join_target, fill_args, accepted, last_event, faults, delivered, mergeVars,
                    avgVars, fetchVars, was_open, notified >>

(***************************************************************************)
(* The main thread of a live run: PriceEngine.track_live_prices            *)
(* (engine.py:385-407), WebSocketClient.start and WebSocketClient.stop.    *)
(*   init : the client is built, start not yet called                      *)
(*   loop : in the sleep loop of lines 401-402                             *)
(*   stop_close, join1, join2 : in stop()                                  *)
(*   merge : before process_csv_files; merged : after it                   *)
(*   crashed : an exception ended the process; exited : the run is over    *)
(***************************************************************************)
\* --sources of main.py:139; no list stands for both sources (line 314)
SourcesArgs == { <<"Binance", "Coinbase">>, <<"Binance">>, <<"Coinbase">>,
                 <<"Binance", "Kraken">>, <<"Kraken", "Coinbase">> }

Range(seq) == {seq[i] : i \in DOMAIN seq}

\* A slip: no check of the list before the threads are started; the
\* supported sources of the list are started, then the error ends the run
start_unchecked(sources) ==
    /\ main_pc = "init"
    /\ running' = TRUE
    /\ main_pc' = IF \E i \in DOMAIN sources : sources[i] \notin Sources
                  THEN "crashed" ELSE "loop"
    /\ ws_threads' = [s \in Sources |-> IF s \in Range(sources) THEN 1 ELSE 0]
    /\ keep_running' = [s \in Sources |-> s \in Range(sources)]
    /\ pc' = [s \in Sources |-> IF s \in Range(sources) THEN "connecting" ELSE "none"]
    /\ UNCHANGED << now, processed_trade_ids, processed_entries, csv, disconnect_times,
                    reconnect_times, join_target, fill_args, accepted, last_event, faults,
                    delivered, mergeVars, avgVars, fetchVars, was_open, notified >>

\* start (lines 310-329), with the threads of lines 322-325 run to their end
\* within the joins of lines 328-329
start(sources) ==
    /\ main_pc = "init"
    /\ running' = TRUE
    /\ IF \E i \in DOMAIN sources : sources[i] \notin Sources
       THEN \* line 319: ValueError, which track_live_prices does not catch
            /\ main_pc' = "crashed"
            /\ UNCHANGED << pc, ws_threads, keep_running, notified >>
       ELSE /\ main_pc' = "loop"
            /\ ws_threads' = [s \in Sources |-> IF s \in Range(sources) THEN 1 ELSE 0]
            /\ keep_running' = [s \in Sources |-> s \in Range(sources)]
            /\ pc' = [s \in Sources |-> IF s \in Range(sources) THEN "connecting"
                                        ELSE "none"]
    /\ UNCHANGED << now, processed_trade_ids, processed_entries, csv, disconnect_times,
                    reconnect_times, join_target, fill_args, accepted, last_event, faults, delivered,
                    mergeVars, avgVars, fetchVars, was_open, notified >>

mainFrame == << pc, now, processed_trade_ids, processed_entries, csv, disconnect_times,
                reconnect_times, ws_threads, fill_args, accepted, last_event, faults, delivered,
                avgVars, fetchVars, was_open, notified >>

\* Ctrl-C in the sleep loop; stop() line 333
keyboard_interrupt ==
    /\ main_pc = "loop"
    /\ running' = FALSE
    /\ main_pc' = "stop_close"
    /\ UNCHANGED << mainFrame, keep_running, join_target, mergeVars >>

\* stop() lines 334-335: close() on every app in self.ws_apps
stop_close ==
    /\ main_pc = "stop_close"
    /\ keep_running' = [s \in Sources |-> IF ws_threads[s] > 0 THEN FALSE
                                          ELSE keep_running[s]]
    /\ main_pc' = "join1"
    /\ UNCHANGED << mainFrame, running, join_target, mergeVars >>

\* thread number g of source s has ended
ThreadEnded(s, g) == ws_threads[s] > g \/ pc[s] = "ended"

AfterJoin(i) == IF i < Len(SourceOrder) THEN "join2" ELSE "merge"

\* stop() lines 336-337: the loop takes the thread now in self.ws_threads
\* and joins it
stop_join(i) ==
    /\ main_pc = (IF i = 1 THEN "join1" ELSE "join2")
    /\ LET s == SourceOrder[i]
       IN  \/ /\ join_target = None /\ ws_threads[s] = 0
              /\ main_pc' = AfterJoin(i)
              /\ UNCHANGED join_target
           \/ /\ join_target = None /\ ws_threads[s] > 0
              /\ join_target' = Some(<<s, ws_threads[s]>>)
              /\ UNCHANGED main_pc
           \/ /\ join_target # None /\ ThreadEnded(join_target[1][1], join_target[1][2])
              /\ join_target' = None
              /\ main_pc' = AfterJoin(i)
    /\ UNCHANGED << mainFrame, running, keep_running, mergeVars >>

\* engine.py:407: the final merge
final_merge ==
    /\ main_pc = "merge"
    /\ merges' = merges + 1
    /\ process_csv_files
    /\ main_pc' = IF merge_status' = "ok" THEN "merged" ELSE "crashed"
    /\ UNCHANGED << mainFrame, running, keep_running, join_target, query_result >>

\* track_live_prices returns and the process ends, its daemon threads too
exit ==
    /\ main_pc = "merged"
    /\ main_pc' = "exited"
    /\ UNCHANGED << mainFrame, running, keep_running, join_target, mergeVars >>

(***************************************************************************)
(* Spec: one live run, from the construction of the engine and its client. *)
(***************************************************************************)
Init ==
    /\ ClientInit
    /\ csv = [s \in Sources |-> <<>>]
    /\ EngineInit
    /\ AvgIdle
    /\ FetchIdle

Worker(s) ==
    \/ on_open(s) \/ fill_trade(s) \/ fill_done(s) \/ on_message(s)
    \/ transport_error(s) \/ server_close(s) \/ closed_by_stop(s)
    \/ on_error(s) \/ on_close(s) \/ reconnect(s)

Main ==
    \/ \E sources \in SourcesArgs : start(sources)
    \/ keyboard_interrupt \/ stop_close
    \/ \E i \in DOMAIN SourceOrder : stop_join(i)
    \/ final_merge \/ exit

Next == Main \/ Tick \/ \E s \in Sources : Worker(s)

Spec == Init /\ [][Next]_vars

(***************************************************************************)
(* FairSpec: the connection lifecycle of a live run in which the exchanges *)
(* send no trade.  Every callback that is due is run, and the sleep of     *)
(* _on_close ends: the websocket thread of a source is never starved.      *)
(***************************************************************************)
\* a tick log is kept from one run to the next (lines 50-58): it is empty
\* or holds a row of an earlier run
EarlierLogs == {<<>>, <<[timestamp |-> 0, price |-> 100]>>}

InitLifecycle ==
    /\ ClientInit
    /\ csv \in [Sources -> EarlierLogs]
    /\ EngineInit
    /\ AvgIdle
    /\ FetchIdle

Lifecycle(s) ==
    \/ on_open(s) \/ fill_done(s)
    \/ transport_error(s) \/ server_close(s) \/ closed_by_stop(s)
    \/ on_error(s) \/ on_close(s) \/ reconnect(s)

NextLifecycle == Main \/ Tick \/ \E s \in Sources : Lifecycle(s)

Fairness ==
    \A s \in Sources :
        /\ WF_vars(on_error(s))
        /\ WF_vars(on_close(s))
        /\ WF_vars(reconnect(s))

FairSpec == InitLifecycle /\ [][NextLifecycle]_vars /\ Fairness

(***************************************************************************)
(* The REST endpoints and _fill_missed_data as a whole.                    *)
(* history holds the exchange's trades oldest first, the trade id being    *)
(* the place in it.                                                        *)
(***************************************************************************)
LastN(seq, n) == SubSeq(seq, Max({1, Len(seq) - n + 1}), Len(seq))

Reverse(seq) == [i \in DOMAIN seq |-> seq[Len(seq) + 1 - i]]

InWindow(trade, start_time, end_time) ==
    trade.timestamp >= start_time /\ trade.timestamp <= end_time

\* GET /api/v3/historicalTrades with a limit and no fromId: the most recent
\* trades, oldest first (lines 76-79, 89)
BinanceFirstPage(H) == LastN(H, BinanceLimit)

\* _fetch_binance_historical_trades (lines 72-112), the exchange answering.
\* The loop over the first page skips a trade before start_time, returns at
\* a trade after end_time and takes every other trade.  When it has not
\* returned it asks again from last_id, gets the trade it took last once
\* more, and does so until the exchange's next trade, which is after
\* end_time, ends it.
fetch_binance_historical_trades(H, start_time, end_time) ==
    LET data == BinanceFirstPage(H)
        taken == SelectSeq(data, LAMBDA trade : InWindow(trade, start_time, end_time))
        returned == \E i \in DOMAIN data : data[i].timestamp > end_time
    IN  IF returned \/ taken = <<>>
        THEN Some(taken)
        ELSE Some(Append(taken, taken[Len(taken)]))

\* GET /products/ETH-USD/trades with a limit and the cursor after: the most
\* recent trades older than the cursor, newest first (lines 126-131)
CoinbasePage(H, after) ==
    LET older == SelectSeq(H, LAMBDA trade : after = None \/ trade.trade_id < after[1])
    IN  Reverse(LastN(older, CoinbaseLimit))

\* lines 136-147: the loop over one page
RECURSIVE CoinbaseScan(_, _, _, _, _, _)
CoinbaseScan(data, i, trades, after, start_time, end_time) ==
    IF i > Len(data) THEN [returned |-> FALSE, trades |-> trades, after |-> after]
    ELSE IF data[i].timestamp < start_time
         THEN [returned |-> TRUE, trades |-> trades, after |-> after]
    ELSE IF data[i].timestamp > end_time
         THEN CoinbaseScan(data, i + 1, trades, after, start_time, end_time)
    ELSE CoinbaseScan(data, i + 1, Append(trades, data[i]), Some(data[i].trade_id),
                      start_time, end_time)

\* lines 125-147: the loop over the pages; None when it never ends (a page
\* that moves the cursor nowhere is asked for again)
RECURSIVE CoinbaseLoop(_, _, _, _, _)
CoinbaseLoop(H, trades, after, start_time, end_time) ==
    LET data == CoinbasePage(H, after)
    IN  IF data = <<>> THEN Some(trades)
        ELSE LET r == CoinbaseScan(data, 1, trades, after, start_time, end_time)
             IN  IF r.returned THEN Some(r.trades)
                 ELSE IF r.after = after THEN None
                 ELSE CoinbaseLoop(H, r.trades, r.after, start_time, end_time)

\* _fetch_coinbase_historical_trades (lines 114-152), the exchange answering
fetch_coinbase_historical_trades(H, start_time, end_time) ==
    CoinbaseLoop(H, <<>>, None, start_time, end_time)

\* _fill_missed_data lines 162-167
FetchFor(s, H, start_time, end_time) ==
    IF s = "Binance" THEN fetch_binance_historical_trades(H, start_time, end_time)
    ELSE fetch_coinbase_historical_trades(H, start_time, end_time)

fillFrame == << running, main_pc, now, disconnect_times, reconnect_times, ws_threads,
                keep_running, join_target, faults, mergeVars, avgVars, history, was_open, notified >>

\* _fill_missed_data lines 162-165: the fetch
fill_fetch(s) ==
    /\ pc[s] = "filling" /\ fetched = None
    /\ FetchFor(s, history, fill_args[s][1][1], fill_args[s][1][2]) # None
    /\ fetched' = FetchFor(s, history, fill_args[s][1][1], fill_args[s][1][2])
    /\ UNCHANGED << fillFrame, pc, fill_args, processed_trade_ids, processed_entries,
                    csv, accepted, last_event, delivered >>

\* A slip: the backfill writes its trades without the dedup block
fill_next_unchecked(s) ==
    /\ pc[s] = "filling" /\ fetched # None /\ fetched[1] # <<>>
    /\ LET trade == Head(fetched[1])
       IN  /\ accepted' = [accepted EXCEPT ![s] =
                              Append(@, [trade_id |-> trade.trade_id, price |-> trade.price,
                                         timestamp |-> trade.timestamp, path |-> "backfill"])]
           /\ last_event' = Some([source |-> s, trade |-> trade, kept |-> TRUE,
                                  path |-> "backfill"])
           /\ csv' = [csv EXCEPT ![s] = write_to_csv(@, trade.timestamp, trade.price)]
    /\ fetched' = Some(Tail(fetched[1]))
    /\ delivered' = delivered + 1
    /\ UNCHANGED << fillFrame, pc, fill_args, processed_trade_ids, processed_entries >>

\* _fill_missed_data lines 169-186: one turn of the loop over the trades
fill_next(s) ==
    /\ pc[s] = "filling" /\ fetched # None /\ fetched[1] # <<>>
    /\ Ingest(s, Head(fetched[1]), "backfill")
    /\ fetched' = Some(Tail(fetched[1]))
    /\ delivered' = delivered + 1
    /\ UNCHANGED << fillFrame, pc, fill_args >>

\* _fill_missed_data line 188: the loop is over
fill_end(s) ==
    /\ pc[s] = "filling" /\ fetched = Some(<<>>)
    /\ pc' = [pc EXCEPT ![s] = "connected"]
    /\ fill_args' = [fill_args EXCEPT ![s] = None]
    /\ UNCHANGED << fillFrame, fetched, processed_trade_ids, processed_entries,
                    csv, accepted, last_event, delivered >>

\* the run is stopped once the fill is over: the final merge (engine.py:407)
merge_after_fill ==
    /\ \E s \in Sources : pc[s] = "connected"
    /\ merges = 0
    /\ merges' = 1
    /\ process_csv_files
    /\ UNCHANGED << clientVars, csv, avgVars, fetchVars, query_result >>

(***************************************************************************)
(* SpecFill: one source of a live run is in _on_open with the window       *)
(* <<disconnect time, reconnect time>>; the exchange holds any trades; the *)
(* source got at most one of them live before the disconnect; the other    *)
(* source's log is empty or holds a row of an earlier run.                 *)
(***************************************************************************)
\* the trades an exchange holds: ids in order, times not decreasing
Histories ==
    UNION { { [i \in 1..n |-> [trade_id |-> i, price |-> 100, timestamp |-> ts[i]]] :
                ts \in { f \in [1..n -> 0..MaxFillTime] :
                           \A i \in 1..n : i = 1 \/ f[i - 1] <= f[i] } } :
            n \in 0..MaxHist }

InitFill ==
    /\ EngineInit
    /\ AvgIdle
    /\ fetched = None
    /\ history \in Histories
    /\ \E s \in Sources : \E t0 \in 0..MaxFillTime : \E t1 \in t0..MaxFillTime :
       \E seen \in {0, 1} : \E other \in EarlierLogs :
         LET live == SubSeq(history, 1, seen)
         IN  /\ seen <= Len(history)
             /\ \A i \in DOMAIN live : live[i].timestamp <= t0
             /\ running = TRUE
             /\ main_pc = "loop"
             /\ now = t1
             /\ pc = [x \in Sources |-> IF x = s THEN "filling" ELSE "none"]
             /\ ws_threads = [x \in Sources |-> IF x = s THEN 2 ELSE 0]
             /\ keep_running = [x \in Sources |-> x = s]
             /\ join_target = None
             /\ disconnect_times = [x \in Sources |-> IF x = s THEN Some(t0) ELSE None]
             /\ reconnect_times = [x \in Sources |-> IF x = s THEN Some(t1) ELSE None]
             /\ fill_args = [x \in Sources |-> IF x = s THEN Some(fill_window(t0, t1))
                                               ELSE None]
             /\ processed_trade_ids =
                    [x \in Sources |-> IF x = s THEN [i \in DOMAIN live |-> live[i].trade_id]
                                       ELSE <<>>]
             /\ processed_entries =
                    [x \in Sources |-> IF x = s THEN [i \in DOMAIN live |-> entry_key(live[i])]
                                       ELSE <<>>]
             /\ accepted = [x \in Sources |->
                              IF x = s
                              THEN [i \in DOMAIN live |->
                                      [trade_id |-> live[i].trade_id, price |-> live[i].price,
                                       timestamp |-> live[i].timestamp, path |-> "live"]]
                              ELSE <<>>]
             /\ csv = [x \in Sources |->
                         IF x = s THEN [i \in DOMAIN live |->
                                          [timestamp |-> live[i].timestamp,
                                           price |-> live[i].price]]
                         ELSE other]
             /\ was_open = [x \in Sources |-> x = s]
             /\ notified = [x \in Sources |->
                              IF x = s
                              THEN [i \in DOMAIN live |->
                                      [timestamp |-> live[i].timestamp,
                                       price |-> live[i].price, in_log |-> TRUE]]
                              ELSE <<>>]
             /\ last_event = IF seen = 0 THEN None
                             ELSE Some([source |-> s, trade |-> live[1], kept |-> TRUE,
                                        path |-> "live"])
             /\ faults = 1
             /\ delivered = seen

NextFill ==
    \/ \E s \in Sources : fill_fetch(s) \/ fill_next(s) \/ fill_end(s) \/ on_message(s)
    \/ merge_after_fill

SpecFill == InitFill /\ [][NextFill]_vars

(***************************************************************************)
(* SpecFetch: as SpecFill, with an exchange that holds the trades of       *)
(* history and gets no new one while the fetch runs.                       *)
(***************************************************************************)
\* GET /api/v3/historicalTrades (lines 87-91): without fromId the most recent
\* trades, with fromId the trades from that id on, the one with that id
\* included; oldest first, no more than the limit
BinancePage(H, last_id) ==
    IF last_id = None THEN LastN(H, BinanceLimit)
    ELSE LET from == SelectSeq(H, LAMBDA trade : trade.trade_id >= last_id[1])
         IN  SubSeq(from, 1, Min({Len(from), BinanceLimit}))

\* lines 96-107: the loop over one page
RECURSIVE BinanceScan(_, _, _, _, _, _)
BinanceScan(data, i, trades, last_id, start_time, end_time) ==
    IF i > Len(data) THEN [returned |-> FALSE, trades |-> trades, last_id |-> last_id]
    ELSE IF data[i].timestamp < start_time
         THEN BinanceScan(data, i + 1, trades, last_id, start_time, end_time)
    ELSE IF data[i].timestamp > end_time
         THEN [returned |-> TRUE, trades |-> trades, last_id |-> last_id]
    ELSE BinanceScan(data, i + 1, Append(trades, data[i]), Some(data[i].trade_id),
                     start_time, end_time)

\* lines 86-107: the loop over the pages; None when it never ends (a page
\* that leaves last_id where it was is asked for again)
RECURSIVE BinanceLoop(_, _, _, _, _)
BinanceLoop(H, trades, last_id, start_time, end_time) ==
    LET data == BinancePage(H, last_id)
    IN  IF data = <<>> THEN Some(trades)
        ELSE LET r == BinanceScan(data, 1, trades, last_id, start_time, end_time)
             IN  IF r.returned THEN Some(r.trades)
                 ELSE IF r.last_id = last_id THEN None
                 ELSE BinanceLoop(H, r.trades, r.last_id, start_time, end_time)

\* _fill_missed_data lines 162-167, the exchanges holding what they hold
FetchOnHistory(s, H, start_time, end_time) ==
    IF s = "Binance" THEN BinanceLoop(H, <<>>, None, start_time, end_time)
    ELSE fetch_coinbase_historical_trades(H, start_time, end_time)

\* _fill_missed_data lines 162-165: the fetch, when it ends
fetch_on_history(s) ==
    /\ pc[s] = "filling" /\ fetched = None
    /\ FetchOnHistory(s, history, fill_args[s][1][1], fill_args[s][1][2]) # None
    /\ fetched' = FetchOnHistory(s, history, fill_args[s][1][1], fill_args[s][1][2])
    /\ UNCHANGED << fillFrame, pc, fill_args, processed_trade_ids, processed_entries,
                    csv, accepted, last_event, delivered >>

NextFetch ==
    \E s \in Sources : fetch_on_history(s) \/ fill_next(s) \/ fill_end(s)

SpecFetch == InitFill /\ [][NextFetch]_vars

(***************************************************************************)
(* SpecIngest: the sources of a live run are connected, or in the gap fill *)
(* of _on_open, each with no tick yet or with one tick of the live stream; *)
(* trades arrive on both paths, and a write to a tick log may fail (open() *)
(* of line 65 raises OSError).                                             *)
(***************************************************************************)
\* the tick a source may have got on the live stream before
EarlierTick == [trade_id |-> 1, price |-> 100, timestamp |-> 0]

\* The dedup block, then _write_to_csv raises: the keys are in the deques
\* (lines 182-183, 209-210), no row is written
IngestWriteFails(s, trade, path) ==
    /\ ~IsDuplicate(s, trade)
    /\ processed_trade_ids' =
          [processed_trade_ids EXCEPT ![s] = DequeAppend(@, trade.trade_id)]
    /\ processed_entries' =
          [processed_entries EXCEPT ![s] = DequeAppend(@, entry_key(trade))]
    /\ accepted' = [accepted EXCEPT ![s] =
                       Append(@, [trade_id |-> trade.trade_id, price |-> trade.price,
                                  timestamp |-> trade.timestamp, path |-> path])]
    /\ last_event' = Some([source |-> s, trade |-> trade, kept |-> TRUE, path |-> path])

\* a message handler whose _write_to_csv raises: the exception is caught at
\* line 215 (243), on_price_update is not reached
on_message_write_fails(s) ==
    /\ Alive /\ pc[s] = "connected" /\ keep_running[s] /\ delivered < MaxDelivered
    /\ \E id \in TradeIds : \E price \in Prices :
          LET trade == [trade_id |-> id, price |-> price, timestamp |-> now]
          IN  IngestWriteFails(s, trade, "live")
    /\ delivered' = delivered + 1
    /\ UNCHANGED << running, pc, main_pc, now, csv, disconnect_times, reconnect_times,
                    ws_threads, keep_running, join_target, fill_args, faults,
                    mergeVars, avgVars, fetchVars, was_open, notified >>

\* _fill_missed_data whose _write_to_csv raises at line 186: the exception
\* leaves the loop and _on_open, the rest of _on_open (the subscription of
\* Coinbase, lines 271-278) is not run; run_forever goes on
fill_trade_write_fails(s) ==
    /\ Alive /\ pc[s] = "filling" /\ delivered < MaxDelivered
    /\ \E id \in TradeIds : \E price \in Prices :
         \E ts \in fill_args[s][1][1]..fill_args[s][1][2] :
            LET trade == [trade_id |-> id, price |-> price, timestamp |-> ts]
            IN  IngestWriteFails(s, trade, "backfill")
    /\ delivered' = delivered + 1
    /\ pc' = [pc EXCEPT ![s] = IF s = "Coinbase" THEN "unsubscribed" ELSE "connected"]
    /\ fill_args' = [fill_args EXCEPT ![s] = None]
    /\ UNCHANGED << running, main_pc, now, csv, disconnect_times, reconnect_times,
                    ws_threads, keep_running, join_target, faults,
                    mergeVars, avgVars, fetchVars, was_open, notified >>

InitIngest ==
    /\ EngineInit
    /\ AvgIdle
    /\ FetchIdle
    /\ running = TRUE
    /\ main_pc = "loop"
    /\ now \in 0..MaxTime
    /\ pc \in [Sources -> {"connected", "filling"}]
    /\ ws_threads = [s \in Sources |-> IF pc[s] = "filling" THEN 2 ELSE 1]
    /\ keep_running = [s \in Sources |-> TRUE]
    /\ was_open = [s \in Sources |-> TRUE]
    /\ join_target = None
    /\ disconnect_times = [s \in Sources |-> IF pc[s] = "filling" THEN Some(0) ELSE None]
    /\ reconnect_times = [s \in Sources |-> Some(IF pc[s] = "filling" THEN now ELSE 0)]
    /\ fill_args = [s \in Sources |-> IF pc[s] = "filling" THEN Some(fill_window(0, now))
                                      ELSE None]
    /\ \E seen \in SUBSET Sources :
         /\ processed_trade_ids =
                [s \in Sources |-> IF s \in seen THEN <<EarlierTick.trade_id>> ELSE <<>>]
         /\ processed_entries =
                [s \in Sources |-> IF s \in seen THEN <<entry_key(EarlierTick)>> ELSE <<>>]
         /\ csv = [s \in Sources |->
                     IF s \in seen
                     THEN write_to_csv(<<>>, EarlierTick.timestamp, EarlierTick.price)
                     ELSE <<>>]
         /\ accepted = [s \in Sources |->
                          IF s \in seen
                          THEN <<[trade_id |-> EarlierTick.trade_id,
                                  price |-> EarlierTick.price,
                                  timestamp |-> EarlierTick.timestamp, path |-> "live"]>>
                          ELSE <<>>]
         /\ notified = [s \in Sources |->
                          IF s \in seen
                          THEN <<[timestamp |-> EarlierTick.timestamp,
                                  price |-> EarlierTick.price, in_log |-> TRUE]>>
                          ELSE <<>>]
    /\ last_event = None
    /\ faults = 0
    /\ delivered = 0

NextIngest ==
    \E s \in Sources :
        \/ on_message(s)
        \/ on_message_write_fails(s)
        \/ fill_trade(s)
        \/ fill_trade_write_fails(s)
        \/ fill_done(s)

SpecIngest == InitIngest /\ [][NextIngest]_vars

(***************************************************************************)
(* Properties of calculate_weighted_average and of the merge.              *)
(***************************************************************************)
\* the term of one weighted source in the sums of a weighted average
SumTerm(P, n) == IF n \in DOMAIN P THEN P[n] * weights[n] ELSE 0
WeightTerm(P, n) == IF n \in DOMAIN P THEN weights[n] ELSE 0

\* C2: calculate_weighted_average of a mapping with at least one source of
\* positive weight is sum(price*weight)/sum(weight) over the weighted sources
\* in the mapping; of the empty mapping it is None, not zero.
C2_WeightedAverage ==
    avg_out.done =>
      /\ (DOMAIN prices_in = {} => avg_out.value = None)
      /\ ((\E n \in DOMAIN prices_in : n \in DOMAIN weights /\ weights[n] > 0) =>
            avg_out.value =
              << SumTerm(prices_in, "Binance") + SumTerm(prices_in, "Coinbase")
                   + SumTerm(prices_in, "CoinGecko"),
                 WeightTerm(prices_in, "Binance") + WeightTerm(prices_in, "Coinbase")
                   + WeightTerm(prices_in, "CoinGecko") >>)

C2_Witness ==
    /\ avg_out.done
    /\ DOMAIN prices_in = {"Binance", "Coinbase", "Kraken"}
    /\ prices_in["Binance"] = 100
    /\ prices_in["Coinbase"] = 104
    /\ avg_out.value = <<1016, 10>>

\* C3: a run of the merge over tick logs that have not changed since the run
\* before writes the same canonical series (and ends the same way).
C3_MergeIdempotent ==
    [][(merges >= 1 /\ merges' = merges + 1 /\ csv' = csv)
         => (final_csv' = final_csv /\ merge_status' = merge_status)]_vars

C3_Witness ==
    /\ merges >= 2
    /\ merge_status = "ok"
    /\ Len(final_csv) >= 2

\* C4 (as claimed): once the merge has run, the table holds one row for each
\* grid point, and a range query returns no timestamp twice.
C4_OneRowPerGridPoint ==
    (merges >= 1 /\ merge_status = "ok") =>
      /\ \A i, j \in DOMAIN db : i # j => db[i].timestamp # db[j].timestamp
      /\ query_result # None =>
           \A i, j \in DOMAIN query_result[1].rows :
              i # j => query_result[1].rows[i].timestamp # query_result[1].rows[j].timestamp

\* the rows of a log with a timestamp below bound
TicksBefore(log, bound) == {k \in DOMAIN log : log[k].timestamp < bound}

\* the row among ks with the latest timestamp, the last appended of these
MostRecent(log, ks) ==
    LET latest == Max({log[k].timestamp : k \in ks})
    IN  Max({k \in ks : log[k].timestamp = latest})

\* C5 (as claimed): at every grid point g the value used for a source is the
\* price of a most recent tick with timestamp at or before g; a source with
\* no tick at or before g is absent at g.
C5_AtOrBeforeGridPoint ==
    \A i \in DOMAIN merge_prices : \A s \in Sources :
       LET g == merge_prices[i].timestamp
           prices == merge_prices[i].prices
           ks == TicksBefore(csv[s], g * SubSec + 1)
       IN  IF ks = {} THEN s \notin DOMAIN prices
           ELSE /\ s \in DOMAIN prices
                /\ \E k \in ks : /\ csv[s][k].timestamp = csv[s][MostRecent(csv[s], ks)].timestamp
                                 /\ prices[s] = csv[s][k].price

\* C5 (amended): at every grid point g the value used for a source is the
\* price of its most recent tick with timestamp before g + 1 second (of ticks
\* with that timestamp, the one appended last); a source with no tick before
\* g + 1 second is absent at g.
C5_LastTickOfSecond ==
    \A i \in DOMAIN merge_prices : \A s \in Sources :
       LET g == merge_prices[i].timestamp
           prices == merge_prices[i].prices
           ks == TicksBefore(csv[s], (g + 1) * SubSec)
       IN  IF ks = {} THEN s \notin DOMAIN prices
           ELSE /\ s \in DOMAIN prices
                /\ prices[s] = csv[s][MostRecent(csv[s], ks)].price

\* a merge used, at a grid point, a tick later than the grid point, and at
\* another a price carried forward from an earlier second
C5_Witness ==
    /\ merge_status = "ok"
    /\ \E i \in DOMAIN merge_prices : \E s \in Sources :
          /\ s \in DOMAIN merge_prices[i].prices
          /\ TicksBefore(csv[s], merge_prices[i].timestamp * SubSec + 1) = {}
    /\ \E i \in DOMAIN merge_prices : \E s \in Sources :
          /\ s \in DOMAIN merge_prices[i].prices
          /\ \A k \in DOMAIN csv[s] : SecOf(csv[s][k].timestamp) # merge_prices[i].timestamp

\* C6 (as claimed): when some source has a tick, the series written by the
\* merge has exactly one row for every second from the earliest tick to the
\* latest tick, in order, and no other row.
C6_GapFree ==
    ((\E s \in Sources : csv[s] # <<>>) /\ merges >= 1) =>
       LET stamps == UNION {{csv[s][k].timestamp : k \in DOMAIN csv[s]} : s \in Sources}
           lo == SecOf(Min(stamps))
           hi == SecOf(Max(stamps))
       IN  /\ Len(final_csv) = hi - lo + 1
           /\ \A i \in DOMAIN final_csv : final_csv[i].timestamp = lo + i - 1
(***************************************************************************)
(* Properties of the live run.                                             *)
(***************************************************************************)
\* two trades the dedup block takes for the same trade
SameTrade(a, b) == a.trade_id = b.trade_id \/ entry_key(a) = entry_key(b)

\* C1 as stated, for two events of a source that follow one another: when
\* the event delivered last and the event of this step are of the same
\* source and have equal trade id or equal (timestamp, price), the event of
\* this step is dropped (no tick was accepted between the two).
C1_SecondAlwaysDropped ==
    [][(/\ delivered' = delivered + 1
        /\ last_event # None
        /\ last_event'[1].source = last_event[1].source
        /\ SameTrade(last_event[1].trade, last_event'[1].trade))
       => ~last_event'[1].kept]_vars

\* C1, amended: of two events of a source with equal trade id or equal
\* (timestamp, price), the first of which was appended to the tick log, the
\* second is dropped unless MaxLen or more ticks were accepted for the
\* source between them; the tick log holds the accepted events, in order.
C1_DedupWithinWindow ==
    \A s \in Sources :
        /\ Len(csv[s]) = Len(accepted[s])
        /\ \A i \in DOMAIN accepted[s] :
              csv[s][i] = [timestamp |-> accepted[s][i].timestamp,
                           price |-> accepted[s][i].price]
        /\ \A i, j \in DOMAIN accepted[s] :
              (i < j /\ SameTrade(accepted[s][i], accepted[s][j])) => j - i > MaxLen

\* C1: an event was dropped as the duplicate of the tick accepted before it
C1_Witness ==
    /\ last_event # None
    /\ ~last_event[1].kept
    /\ LET log == accepted[last_event[1].source]
       IN  /\ log # <<>>
           /\ SameTrade(log[Len(log)], last_event[1].trade)

\* the step is _on_open of source s
OpenStep(s) == pc[s] = "connecting" /\ pc'[s] \in {"filling", "connected"}

C8_ReconnectsWhileRunning ==
    \A s \in Sources :
        (pc[s] \in {"error", "closing"}) ~> (pc[s] = "connecting" \/ ~running)

\* C8: a source is on its second connection while the engine is running
C8_Witness ==
    \E s \in Sources : running /\ ws_threads[s] >= 2 /\ pc[s] = "connecting"

\* stop() has cleared self.running
Stopped == main_pc \in {"stop_close", "join1", "join2", "merge", "merged", "exited"}

\* C9: once stop() has cleared the running flag, no step starts a new
\* connection for any source.
C9_NoConnectionAfterStop ==
    [][Stopped => (ws_threads' = ws_threads)]_vars

\* C10: once the final merge has read the tick logs, no tick is appended to
\* any of them.
C10_NoTickAfterFinalMerge ==
    [][(main_pc \in {"merged", "exited"}) => (csv' = csv)]_vars

(***************************************************************************)
(* Properties of the gap fill.                                             *)
(***************************************************************************)
\* the grid points, whole seconds, of the window [t0, t1)
GridPointsIn(t0, t1) == {g \in 0..SecOf(MaxFillTime) : t0 <= g * SubSec /\ g * SubSec < t1}

\* the exchange holds a trade of the window in the second of each of these
HistoryCovers(t0, t1) ==
    \A g \in GridPointsIn(t0, t1) :
        \E i \in DOMAIN history :
            InWindow(history[i], t0, t1) /\ SecOf(history[i].timestamp) = g

\* the final file has a row for grid point g
HasRow(g) == \E i \in DOMAIN final_csv : final_csv[i].timestamp = g

\* C11: after the gap fill of a source over a window for which the exchange
\* holds trades throughout, and the merge, the canonical series has a row for
\* every grid point of the window.
C11_GapFillComplete ==
    \A s \in Sources :
        (/\ merges = 1 /\ pc[s] = "connected"
         /\ disconnect_times[s] # None /\ reconnect_times[s] # None
         /\ HistoryCovers(disconnect_times[s][1], reconnect_times[s][1]))
        => \A g \in GridPointsIn(disconnect_times[s][1], reconnect_times[s][1]) : HasRow(g)

(***************************************************************************)
(* Properties of the values of the canonical series.                       *)
(***************************************************************************)
\* the deviation the outlier clamp of the specification allows, in the
\* units of Prices
OutlierThreshold == 3

\* averages a and b, each <<sum, weight>>, are more than th apart
Deviates(a, b, th) ==
    LET d == a[1] * b[2] - b[1] * a[2]
    IN  (IF d >= 0 THEN d ELSE 0 - d) > th * a[2] * b[2]

TotalOutage == \A s \in Sources : pc[s] \notin {"filling", "connected"}

\* the time of the last tick recorded so far, None when there is none
LastRecorded ==
    LET stamps == UNION {{accepted[s][i].timestamp : i \in DOMAIN accepted[s]} :
                         s \in Sources}
    IN  IF stamps = {} THEN None ELSE Some(Max(stamps))

\* the first grid boundary, a whole second, at or after t
NextBoundary(t) == ((t + SubSec - 1) \div SubSec) * SubSec

\* C13: when an open ends an outage of every source after a disconnect, the
\* window handed to the gap fill starts at the time of the last value
\* recorded before the outage and ends at the first grid boundary at or
\* after the recovery.
C13_OutageWindow ==
    [][\A s \in Sources :
          (OpenStep(s) /\ TotalOutage /\ disconnect_times[s] # None /\ LastRecorded # None)
          => fill_args'[s] = Some(<<LastRecorded[1], NextBoundary(now)>>)]_vars

\* the sources with a tick in the second of grid point g or before it
PresentAt(g) ==
    {s \in Sources : \E k \in DOMAIN csv[s] : SecOf(csv[s][k].timestamp) <= g}

\* the prices dict the merge built for grid point g
PricesOf(g) ==
    LET i == CHOOSE i \in DOMAIN merge_prices : merge_prices[i].timestamp = g
    IN  merge_prices[i].prices

\* C14: at every grid point of the canonical series the average is taken
\* over the sources that have a value there and over no other: where one
\* source alone has a value the row holds its price, and where all sources
\* with a value have the same price p the row holds p.
C14_AbsentSourceExcluded ==
    (merges >= 1 /\ merge_status = "ok") =>
        \A i \in DOMAIN final_csv :
            LET g == final_csv[i].timestamp
                avg == final_csv[i].weighted_avg
                P == PricesOf(g)
            IN  /\ DOMAIN P = PresentAt(g)
                /\ \A p \in Prices :
                      (\A s \in DOMAIN P : P[s] = p) => avg[1] = p * avg[2]

\* C14: a merge with a grid point where Binance alone has a value, 100, and
\* a later one where both sources have the value 104
C14_Witness ==
    /\ merges >= 1 /\ merge_status = "ok"
    /\ \E i, j \in DOMAIN final_csv :
          /\ i < j
          /\ DOMAIN PricesOf(final_csv[i].timestamp) = {"Binance"}
          /\ final_csv[i].weighted_avg = <<100 * weights["Binance"], weights["Binance"]>>
          /\ DOMAIN PricesOf(final_csv[j].timestamp) = Sources
          /\ \A s \in Sources : PricesOf(final_csv[j].timestamp)[s] = 104
          /\ final_csv[j].weighted_avg[1] = 104 * final_csv[j].weighted_avg[2]

(***************************************************************************)
(* Properties of start.                                                    *)
(***************************************************************************)
\* C15: start with a list that holds an unsupported source ends with the
\* error and leaves every source without thread and without connection.
C15_UnsupportedSourceStartsNothing ==
    [][\A sources \in SourcesArgs :
          (start(sources) /\ \E i \in DOMAIN sources : sources[i] \notin Sources)
          => /\ main_pc' = "crashed"
             /\ \A s \in Sources : ws_threads'[s] = 0 /\ pc'[s] = "none"]_vars

\* C15: start has failed
C15_Witness ==
    /\ main_pc = "crashed" /\ merges = 0
    /\ \A s \in Sources : ws_threads[s] = 0

(***************************************************************************)
(* Properties of the range query.                                          *)
(***************************************************************************)
\* a row of the table as the query returns it
AsResult(r) == [timestamp |-> r.timestamp, weighted_avg |-> r.weighted_avg]

\* how often row x is in the rows of the table that satisfy Keep
TimesInTable(x, Keep(_)) ==
    Cardinality({i \in DOMAIN db : AsResult(db[i]) = x /\ Keep(db[i])})

TimesIn(rows, x) == Cardinality({i \in DOMAIN rows : rows[i] = x})

\* the last query, of a start before its end, returned the rows of the table
\* with start <= timestamp <= end, each as often as the table holds it, in
\* nondecreasing order of timestamp
QueryExact ==
    LET q == query_result[1]
        lo == strptime(q.start_date)
        hi == strptime(q.end_date)
        Keep(r) == lo <= r.timestamp /\ r.timestamp <= hi
    IN  lo < hi =>
          /\ \A i, j \in DOMAIN q.rows : i < j => q.rows[i].timestamp <= q.rows[j].timestamp
          /\ \A x \in {AsResult(db[i]) : i \in DOMAIN db} \cup Range(q.rows) :
                TimesIn(q.rows, x) = TimesInTable(x, Keep)

\* C16: a query with start < end returns exactly the rows of the table with
\* start <= timestamp <= end, in nondecreasing order of timestamp, and leaves
\* the table as it is.
C16_RangeQueryExact ==
    [][(query_result' # query_result) => (db' = db /\ QueryExact')]_vars

\* a step in which the close handler of s runs
CloseStep(s) == pc[s] = "closing" /\ pc'[s] \in {"backoff", "ended"}

\* C17: the disconnect time of a source is set, to the current time, by the
\* close of a connection that was open, whether an error or a close ended
\* it, and by nothing else: a close that reaches a source whose connection
\* never opened (a failed attempt to connect) leaves it as it was.
C17_DisconnectTimeOfLastDrop ==
    [][\A s \in Sources :
          IF CloseStep(s) /\ was_open[s]
          THEN disconnect_times'[s] = Some(now)
          ELSE disconnect_times'[s] = disconnect_times[s]]_vars

\* a and b are one trade of the exchange
OneTrade(a, b) ==
    a.trade_id = b.trade_id /\ a.timestamp = b.timestamp /\ a.price = b.price

\* C18 as stated: no trade is in the tick log of a source twice, once for
\* the live path and once for the backfill path, whichever came first.
C18_BothPathsAppendOnce ==
    \A s \in Sources : \A i, j \in DOMAIN accepted[s] :
        (i < j /\ OneTrade(accepted[s][i], accepted[s][j]))
        => accepted[s][i].path = accepted[s][j].path

\* C18, amended: a trade that the live path and the backfill path both
\* deliver is appended to the tick log of its source once, whichever path
\* came first, unless MaxLen or more trades of the source were appended
\* between the two deliveries.
C18_BothPathsOnceWithinWindow ==
    \A s \in Sources : \A i, j \in DOMAIN accepted[s] :
        (/\ i < j
         /\ OneTrade(accepted[s][i], accepted[s][j])
         /\ accepted[s][i].path # accepted[s][j].path)
        => j - i > MaxLen

\* C18: the backfill delivered a trade that the live path had appended, and
\* it was dropped
C18_Witness ==
    /\ last_event # None
    /\ last_event[1].path = "backfill"
    /\ ~last_event[1].kept
    /\ LET log == accepted[last_event[1].source]
       IN  /\ log # <<>>
           /\ log[Len(log)].path = "live"
           /\ OneTrade(log[Len(log)], last_event[1].trade)
           /\ Len(csv[last_event[1].source]) = Len(log)

\* the ways to put the rows of log in another order
Orders(log) ==
    { q \in [DOMAIN log -> DOMAIN log] : \A i, j \in DOMAIN log : q[i] = q[j] => i = j }

\* the order q leaves rows of log with equal timestamps in their order
KeepsTies(log, q) ==
    \A i, j \in DOMAIN log :
        (i < j /\ log[q[i]].timestamp = log[q[j]].timestamp) => q[i] < q[j]

\* the tick logs that hold the rows of log in any order
Reordered(log) == { [i \in DOMAIN log |-> log[q[i]]] : q \in Orders(log) }

\* the tick logs that hold the rows of log in an order that keeps ties
ReorderedKeepingTies(log) ==
    { [i \in DOMAIN log |-> log[q[i]]] : q \in {o \in Orders(log) : KeepsTies(log, o)} }

\* the canonical series the merge makes of tick logs none of which is empty
SeriesOf(logs) == CanonicalRows([s \in Sources |-> Resample(logs[s])])

\* C19: the canonical series a merge wrote is the series of every reordering
\* of the tick logs, whatever the timestamps and prices of the ticks, and
\* its rows are in strictly increasing order of timestamp.
C19_OrderIndependent ==
    (merges >= 1 /\ merge_status = "ok") =>
      /\ \A b \in Reordered(csv["Binance"]) : \A c \in Reordered(csv["Coinbase"]) :
            SeriesOf([s \in Sources |-> IF s = "Binance" THEN b ELSE c]) = final_csv
      /\ \A i, j \in DOMAIN final_csv :
            i < j => final_csv[i].timestamp < final_csv[j].timestamp

\* C19, amended: the canonical series a merge wrote is the series of every
\* reordering of the tick logs that leaves ticks of equal timestamp in their
\* order, and its rows are in strictly increasing order of timestamp.
C19_OrderIndependentUpToTies ==
    (merges >= 1 /\ merge_status = "ok") =>
      /\ \A b \in ReorderedKeepingTies(csv["Binance"]) :
           \A c \in ReorderedKeepingTies(csv["Coinbase"]) :
              SeriesOf([s \in Sources |-> IF s = "Binance" THEN b ELSE c]) = final_csv
      /\ \A i, j \in DOMAIN final_csv :
            i < j => final_csv[i].timestamp < final_csv[j].timestamp

\* C19: a merge ran over a tick log appended out of timestamp order, its two
\* ticks in different seconds and at different prices
C19_Witness ==
    /\ merges >= 1 /\ merge_status = "ok"
    /\ Len(final_csv) >= 2
    /\ \E s \in Sources :
         /\ Len(csv[s]) = 2
         /\ SecOf(csv[s][1].timestamp) > SecOf(csv[s][2].timestamp)
         /\ csv[s][1].price # csv[s][2].price

\* C20: a merge over tick logs of which one is empty (or missing, or
\* unreadable, which the merge reads as empty) while another holds ticks
\* completes, and the canonical series is the one made of the ticks of the
\* sources that have some: a row for every second from the first to the last.
C20_MergeSurvivesEmptyLog ==
    (/\ merges >= 1
     /\ \E s \in Sources : csv[s] = <<>>
     /\ \E s \in Sources : csv[s] # <<>>)
    => /\ merge_status = "ok"
       /\ LET stamps == UNION {{SecOf(csv[s][i].timestamp) : i \in DOMAIN csv[s]} :
                               s \in Sources}
          IN  \A g \in Min(stamps)..Max(stamps) : HasRow(g)

(***************************************************************************)
(* Properties of the subscriber's notifications.                           *)
(***************************************************************************)
\* the (timestamp, price) of each entry of a sequence of ticks
Ticks(seq) == [i \in DOMAIN seq |-> <<seq[i].timestamp, seq[i].price>>]

\* C21: the calls of on_price_update for a source are its accepted ticks, live
\* and backfilled, each one once and in the order of acceptance.
C21_AcceptedForwardedOnce ==
    \A s \in Sources : Ticks(notified[s]) = Ticks(accepted[s])

\* C22: at every call of on_price_update the row of the tick was in the tick
\* log of its source: the append was over before the subscriber was called.
C22_WriteThenNotify ==
    \A s \in Sources : \A i \in DOMAIN notified[s] : notified[s][i].in_log

\* C22: the subscriber was called for a tick that is in the log, after a
\* write of an earlier tick of the source had failed
C22_Witness ==
    \E s \in Sources :
        /\ notified[s] # <<>>
        /\ notified[s][Len(notified[s])].in_log
        /\ InLog(csv[s], notified[s][Len(notified[s])])
        /\ Len(accepted[s]) > Len(csv[s])

(***************************************************************************)
(* Properties of the dedup deques.                                         *)
(***************************************************************************)
\* the ticks of source s whose keys the deques should hold: the last MaxLen
\* that passed dedup
Window(s) ==
    LET n == Len(accepted[s])
    IN  SubSeq(accepted[s], Max({1, n - MaxLen + 1}), n)

\* the two deques of s hold, position for position, the trade id and the
\* (timestamp, price) of the ticks of the window, and no more than MaxLen
DequesInStep(s) ==
    /\ Len(processed_trade_ids[s]) <= MaxLen
    /\ Len(processed_entries[s]) = Len(processed_trade_ids[s])
    /\ Len(processed_trade_ids[s]) = Len(Window(s))
    /\ \A i \in DOMAIN Window(s) :
          /\ processed_trade_ids[s][i] = Window(s)[i].trade_id
          /\ processed_entries[s][i] = entry_key(Window(s)[i])

\* the step delivers to s a trade that passed dedup before and is not in
\* the window any more
RedeliveryOfEvicted(s) ==
    /\ delivered' = delivered + 1
    /\ last_event'[1].source = s
    /\ \E i \in DOMAIN accepted[s] :
          /\ i <= Len(accepted[s]) - MaxLen
          /\ OneTrade(accepted[s][i], last_event'[1].trade)
    /\ \A i \in DOMAIN Window(s) : ~OneTrade(Window(s)[i], last_event'[1].trade)

\* no tick of the window of s has the id or the (timestamp, price) of the
\* trade the step delivers
NoMatchInWindow(s) ==
    \A i \in DOMAIN Window(s) : ~SameTrade(Window(s)[i], last_event'[1].trade)

OwnState(s) ==
    << processed_trade_ids[s], processed_entries[s], disconnect_times[s],
       reconnect_times[s], csv[s] >>

\* the step is an event of source s: its thread moves, or a trade of s,
\* live or backfilled, is delivered
EventOf(s) ==
    \/ pc'[s] # pc[s]
    \/ delivered' = delivered + 1 /\ last_event'[1].source = s

\* C24: an event of one source (a trade on either path, an open, an error,
\* a close, a reconnect, the end of a gap fill) leaves the deques, the
\* disconnect and reconnect time and the tick log of every other source as
\* they are.
C24_SourcesIsolated ==
    [][\A s \in Sources : \A x \in Sources \ {s} :
          (EventOf(s) /\ ~EventOf(x)) => OwnState(x)' = OwnState(x)]_vars

\* C24: one source has lost its connection and the other has not, and each
\* has a tick of its own in its log
C24_Witness ==
    \E s \in Sources : \E x \in Sources \ {s} :
        /\ disconnect_times[s] # None /\ disconnect_times[x] = None
        /\ reconnect_times[x] # None
        /\ csv[s] # <<>> /\ csv[x] # <<>>
        /\ processed_trade_ids[s] # <<>> /\ processed_trade_ids[x] # <<>>

\* C25: every (timestamp, price) and every trade id in the deques of a source
\* belongs to a tick whose row is in the tick log of the source; the keys of
\* a tick whose write failed are not kept.
C25_KeysOnlyOfLoggedTicks ==
    \A s \in Sources : \A i \in DOMAIN processed_entries[s] :
        /\ InLog(csv[s], [timestamp |-> processed_entries[s][i][1],
                          price |-> processed_entries[s][i][2]])
        /\ i \in DOMAIN processed_trade_ids[s]
        /\ \E k \in DOMAIN accepted[s] :
              /\ accepted[s][k].trade_id = processed_trade_ids[s][i]
              /\ entry_key(accepted[s][k]) = processed_entries[s][i]

(***************************************************************************)
(* Properties of the historical-trade fetch.                               *)
(***************************************************************************)
\* C26: for every history the exchange holds, the fetch of a gap fill ends:
\* no request leaves the cursor (last_id, after) where it was with the
\* loop still running, so the source does not stay in _on_open for ever.
C26_FetchTerminates ==
    \A s \in Sources :
        (pc[s] = "filling" /\ fetched = None)
        => FetchOnHistory(s, history, fill_args[s][1][1], fill_args[s][1][2]) # None

=============================================================================
